---- MODULE Spec2Model ----
(***************************************************************************)
(* Model of mongodb_config.py (MEDIMORPH): the connection lifecycle, the   *)
(* five MongoEngine documents with their save / to_dict methods, and the   *)
(* maintenance utilities create_default_users and get_database_stats.      *)
(*                                                                         *)
(* What MongoEngine and the server do for the declarations in the source   *)
(* (unique=True, required=True, choices=..., default=...) is written out   *)
(* as operators, next to the declaration that asks for it.                 *)
(***************************************************************************)
EXTENDS Integers, Sequences, FiniteSets, TLC

VARIABLES
    users,      \* the 'users' collection: a set of stored User documents
    nextId,     \* next ObjectId handed out for a User
    lastUser,   \* outcome of the last direct User save
    seed,       \* create_default_users: the local state of each running call
    hist,       \* create_default_users: the finished calls of each caller
    now,        \* datetime.utcnow(), in clock ticks
    docs,       \* Medication and Reminder objects (in memory and stored)
    lastDoc,    \* outcome of the last Medication / Reminder operation
    logs,       \* MedicationLog and PrescriptionUpload objects
    lastLog,    \* outcome of the last MedicationLog / PrescriptionUpload operation
    conn,       \* mongoengine's connection registry and the clients it made
    server,     \* whether the MongoDB server answers
    init,       \* init_mongodb: the local state of the call
    probe,      \* test_mongodb_connection: result of the last call
    stats,      \* get_database_stats: the local state of the call
    recs,       \* to_dict: records of the five types, timestamp fields
    out         \* to_dict: the last two outputs per record

userVars == <<users, nextId, lastUser>>
seedVars == <<seed, hist>>
docVars  == <<now, docs, lastDoc>>
logVars  == <<logs, lastLog>>
connVars == <<conn, server, init, probe>>
dictVars == <<recs, out>>
vars == <<users, nextId, lastUser, seed, hist, now, docs, lastDoc, logs,
          lastLog, conn, server, init, probe, stats, recs, out>>

None == "None"

(***************************************************************************)
(* Bounds of the model.                                                    *)
(***************************************************************************)
MaxUsers == 3
MaxRuns == 2
MaxPre == 2

(***************************************************************************)
(* User: username and email are required and unique (lines 72-73).         *)
(***************************************************************************)
default_users ==
    << [username |-> "testuser", email |-> "testuser@example.com"],
       [username |-> "karthikrai390@gmail.com", email |-> "karthikrai390@gmail.com"] >>

Usernames == {"testuser", "karthikrai390@gmail.com", "alice"}
Emails == {"testuser@example.com", "karthikrai390@gmail.com", "alice@x.com"}

\* required=True on username, email (and password_hash, set by set_password)
UserValidate(doc) == doc.username # None /\ doc.email # None

\* as UserNotUnique, had email been declared without unique=True
UserNotUniqueNameOnly(store, doc) ==
    \E s \in store : s.id # doc.id /\ s.username = doc.username

\* unique=True: the unique index refuses a document whose username or email
\* is held by another stored document
UserNotUnique(store, doc) ==
    \E s \in store : s.id # doc.id /\ (s.username = doc.username \/ s.email = doc.email)

\* Document.save() of a User: validation, then insert or overwrite by id.
\* Result: the error raised (None when it returns) and the store afterwards.
UserSave(store, doc) ==
    IF ~UserValidate(doc) THEN [raised |-> "ValidationError", store |-> store]
    ELSE IF UserNotUnique(store, doc) THEN [raised |-> "NotUniqueError", store |-> store]
    ELSE [raised |-> None,
          store |-> {s \in store : s.id # doc.id} \cup {doc}]

\* as UserFirst, had the query asked for the email
UserFirstByEmail(store, u) == {s \in store : s.email = u}

\* User.objects(username=u).first(): the stored documents with that username
\* (at most one under the unique index); the empty set stands for None
UserFirst(store, u) == {s \in store : s.username = u}

\* A caller builds a new User and saves it.
UserInsert(u, e) ==
    /\ Cardinality(users) < MaxUsers
    /\ LET doc == [id |-> nextId, username |-> u, email |-> e]
           r == UserSave(users, doc)
       IN /\ users' = r.store
          /\ nextId' = IF r.raised = None THEN nextId + 1 ELSE nextId
          /\ lastUser' = [op |-> "insert", raised |-> r.raised, doc |-> doc,
                          before |-> users]
    /\ UNCHANGED <<seedVars, docVars, logVars, connVars, stats, dictVars>>

\* A caller changes username / email of a loaded User and saves it again.
UserResave(s, u, e) ==
    /\ s \in users
    /\ LET doc == [s EXCEPT !.username = u, !.email = e]
           r == UserSave(users, doc)
       IN /\ users' = r.store
          /\ lastUser' = [op |-> "resave", raised |-> r.raised, doc |-> doc,
                          before |-> users]
    /\ UNCHANGED <<nextId, seedVars, docVars, logVars, connVars, stats, dictVars>>

(***************************************************************************)
(* create_default_users (lines 320-364), one step per database round trip. *)
(***************************************************************************)
SeedIdle == [pc |-> "idle", idx |-> 0, existing |-> {}, created |-> 0,
             result |-> None, caught |-> None, before |-> {}]

\* line 340: created_count = 0, the loop starts at the first seed
SeedStart(p) ==
    /\ seed[p].pc = "idle"
    /\ Len(hist[p]) < MaxRuns
    /\ seed' = [seed EXCEPT ![p] = [SeedIdle EXCEPT !.pc = "check", !.idx = 1,
                    !.before = users]]
    /\ UNCHANGED <<userVars, hist, docVars, logVars, connVars, stats, dictVars>>

\* line 343: existing_user = User.objects(username=...).first()
SeedCheck(p) ==
    /\ seed[p].pc = "check"
    /\ LET found == UserFirst(users, default_users[seed[p].idx].username)
       IN seed' = [seed EXCEPT ![p].existing = found,
                       ![p].pc = IF found = {} THEN "save"
                                 ELSE IF seed[p].idx < Len(default_users) THEN "check"
                                 ELSE "return",
                       ![p].idx = IF found # {} /\ seed[p].idx < Len(default_users)
                                  THEN seed[p].idx + 1 ELSE seed[p].idx]
    /\ UNCHANGED <<userVars, hist, docVars, logVars, connVars, stats, dictVars>>

\* as SeedExcept, had the except clause raised again
SeedExceptRaise(s, err) == [s EXCEPT !.pc = "done", !.caught = err, !.result = "Raised"]

\* lines 362-364: except Exception: print, return False
SeedExcept(s, err) == [s EXCEPT !.pc = "done", !.caught = err, !.result = "False"]

\* lines 345-355: build the User, save it, count it; an exception of save()
\* goes to the except clause
SeedSave(p) ==
    /\ seed[p].pc = "save"
    /\ LET d == default_users[seed[p].idx]
           doc == [id |-> nextId, username |-> d.username, email |-> d.email]
           r == UserSave(users, doc)
       IN /\ users' = r.store
          /\ nextId' = IF r.raised = None THEN nextId + 1 ELSE nextId
          /\ seed' = [seed EXCEPT ![p] =
                IF r.raised # None
                THEN SeedExcept(@, r.raised)
                ELSE [@ EXCEPT !.created = @ + 1,
                               !.pc = IF seed[p].idx < Len(default_users)
                                      THEN "check" ELSE "return",
                               !.idx = IF seed[p].idx < Len(default_users)
                                       THEN @ + 1 ELSE @]]
          /\ lastUser' = [op |-> "seed", raised |-> r.raised, doc |-> doc,
                          before |-> users]
    /\ UNCHANGED <<hist, docVars, logVars, connVars, stats, dictVars>>

\* lines 357-360: the loop is over, return True
SeedReturn(p) ==
    /\ seed[p].pc = "return"
    /\ seed' = [seed EXCEPT ![p].pc = "done", ![p].result = "True"]
    /\ UNCHANGED <<userVars, hist, docVars, logVars, connVars, stats, dictVars>>

\* the caller receives the result; it may call again
SeedFinish(p) ==
    /\ seed[p].pc = "done"
    /\ hist' = [hist EXCEPT ![p] = Append(@, [created |-> seed[p].created,
                                             result |-> seed[p].result,
                                             caught |-> seed[p].caught,
                                             before |-> seed[p].before])]
    /\ seed' = [seed EXCEPT ![p] = SeedIdle]
    /\ UNCHANGED <<userVars, docVars, logVars, connVars, stats, dictVars>>

(***************************************************************************)
(* Initial values.                                                         *)
(***************************************************************************)
Procs == {1, 2}

UserInit ==
    /\ users = {}
    /\ nextId = 1
    /\ lastUser = [op |-> None, raised |-> None, doc |-> None, before |-> {}]

SeedInit ==
    /\ seed = [p \in Procs |-> SeedIdle]
    /\ hist = [p \in Procs |-> << >>]

\* Every content of the users collection the unique indexes allow, up to
\* MaxPre documents.
StoredUsers ==
    UNION { { {[id |-> i, username |-> f[i][1], email |-> f[i][2]] : i \in 1..k} :
              f \in {g \in [1..k -> Usernames \X Emails] :
                        \A i, j \in 1..k : i # j => g[i][1] # g[j][1] /\ g[i][2] # g[j][2]} } :
            k \in 0..MaxPre }

(***************************************************************************)
(* Medication and Reminder: save() refreshes updated_at (lines 153-156 and *)
(* 203-206), then runs Document.save().                                    *)
(***************************************************************************)
MaxDocs == 1
MaxTime == 3

DocIds == 1..MaxDocs
Times == 0..MaxTime
NotStored == -1

NoDoc == [kind |-> None, updated_at |-> 0, given |-> FALSE, valid |-> FALSE,
          stored |-> NotStored]

DocInit ==
    /\ now = 0
    /\ docs = [i \in DocIds |-> NoDoc]
    /\ lastDoc = [op |-> None, id |-> 0, before |-> 0, given |-> FALSE, raised |-> None]

\* datetime.utcnow() moves on
Tick ==
    /\ now < MaxTime
    /\ now' = now + 1
    /\ lastDoc' = [op |-> "tick", id |-> 0, before |-> 0, given |-> FALSE, raised |-> None]
    /\ UNCHANGED <<docs, userVars, seedVars, logVars, connVars, stats, dictVars>>

\* Medication(...) / Reminder(...): updated_at is the caller's value, or
\* default=datetime.utcnow (lines 141, 195) when the caller gives none;
\* valid says whether the required fields are filled in
DocNew(i, kind, valid, t) ==
    /\ docs[i].kind = None
    /\ docs' = [docs EXCEPT ![i] = [kind |-> kind,
                    updated_at |-> IF t = NotStored THEN now ELSE t,
                    given |-> t # NotStored, valid |-> valid, stored |-> NotStored]]
    /\ lastDoc' = [op |-> "new", id |-> i, before |-> 0, given |-> FALSE, raised |-> None]
    /\ UNCHANGED <<now, userVars, seedVars, logVars, connVars, stats, dictVars>>

\* the caller assigns doc.updated_at = t
DocAssign(i, t) ==
    /\ docs[i].kind # None
    /\ docs' = [docs EXCEPT ![i].updated_at = t, ![i].given = TRUE]
    /\ lastDoc' = [op |-> "assign", id |-> i, before |-> docs[i].updated_at,
                   given |-> docs[i].given, raised |-> None]
    /\ UNCHANGED <<now, userVars, seedVars, logVars, connVars, stats, dictVars>>

\* the caller fills in, or empties, a required field (name, dosage, time, ...)
DocEdit(i) ==
    /\ docs[i].kind # None
    /\ docs' = [docs EXCEPT ![i].valid = ~@]
    /\ lastDoc' = [op |-> "edit", id |-> i, before |-> docs[i].updated_at,
                   given |-> docs[i].given, raised |-> None]
    /\ UNCHANGED <<now, userVars, seedVars, logVars, connVars, stats, dictVars>>

\* Document.save(): validation of the required fields, then the write
DocumentSave(d) ==
    IF d.valid THEN [raised |-> None, doc |-> [d EXCEPT !.stored = d.updated_at]]
    ELSE [raised |-> "ValidationError", doc |-> d]

\* Medication.save (lines 153-156)
MedicationSave(d, t) ==
    DocumentSave([d EXCEPT !.updated_at = t, !.given = FALSE])

\* as ReminderSave, without the line that sets updated_at
ReminderSaveNoStamp(d, t) == DocumentSave(d)

\* Reminder.save (lines 203-206)
ReminderSave(d, t) ==
    DocumentSave([d EXCEPT !.updated_at = t, !.given = FALSE])

DocSave(i) ==
    /\ docs[i].kind # None
    /\ LET r == IF docs[i].kind = "Medication" THEN MedicationSave(docs[i], now)
                ELSE ReminderSave(docs[i], now)
       IN /\ docs' = [docs EXCEPT ![i] = r.doc]
          /\ lastDoc' = [op |-> "save", id |-> i, before |-> docs[i].updated_at,
                         given |-> docs[i].given, raised |-> r.raised]
    /\ UNCHANGED <<now, userVars, seedVars, logVars, connVars, stats, dictVars>>

(***************************************************************************)
(* MedicationLog and PrescriptionUpload: the status fields with choices    *)
(* and a default (lines 236, 285); neither class overrides save().         *)
(***************************************************************************)
MaxLogs == 1

LogIds == 1..MaxLogs

LogChoices == {"taken", "missed", "delayed"}
UploadChoices == {"pending", "processing", "completed", "failed"}
Choices(kind) == IF kind = "MedicationLog" THEN LogChoices ELSE UploadChoices
Default(kind) == IF kind = "MedicationLog" THEN "taken" ELSE "pending"

\* what a caller may hand in: a value of either enumeration, a value of
\* neither, or nothing
StatusInputs == {"taken", "missed", "pending", "failed", "skipped", None}
Notes == {"", "with food"}

\* BaseField.__set__: None on a field with a default becomes the default
FieldSet(kind, value) == IF value = None THEN Default(kind) ELSE value

NoLog == [kind |-> None, status |-> None, notes |-> "", stored |-> {}]

LogInit ==
    /\ logs = [i \in LogIds |-> NoLog]
    /\ lastLog = [op |-> None, id |-> 0, raised |-> None, given |-> None, before |-> {}]

\* MedicationLog(status=...) / PrescriptionUpload(processing_status=...)
LogNew(i, kind, status) ==
    /\ logs[i].kind = None
    /\ logs' = [logs EXCEPT ![i] = [kind |-> kind, status |-> FieldSet(kind, status),
                                    notes |-> "", stored |-> {}]]
    /\ lastLog' = [op |-> "new", id |-> i, raised |-> None, given |-> status,
                   before |-> {}]
    /\ UNCHANGED <<userVars, seedVars, docVars, connVars, stats, dictVars>>

\* the caller assigns the status field of an object in memory
LogAssign(i, status) ==
    /\ logs[i].kind # None
    /\ logs' = [logs EXCEPT ![i].status = FieldSet(logs[i].kind, status)]
    /\ lastLog' = [op |-> "assign", id |-> i, raised |-> None, given |-> status,
                   before |-> logs[i].stored]
    /\ UNCHANGED <<userVars, seedVars, docVars, connVars, stats, dictVars>>

\* the caller assigns notes (MedicationLog) / error_message (PrescriptionUpload)
LogNote(i, n) ==
    /\ logs[i].kind # None
    /\ logs' = [logs EXCEPT ![i].notes = n]
    /\ lastLog' = [op |-> "note", id |-> i, raised |-> None, given |-> None,
                   before |-> logs[i].stored]
    /\ UNCHANGED <<userVars, seedVars, docVars, connVars, stats, dictVars>>

\* as ChoiceSave, had the field been declared without choices
ChoiceSaveUnchecked(l) ==
    [raised |-> None,
     log |-> [l EXCEPT !.stored = {[status |-> l.status, notes |-> l.notes]}]]

\* as ChoiceSave, had a later save of a stored document dropped its notes
ChoiceSaveDropNotes(l) ==
    IF l.status \in Choices(l.kind)
    THEN [raised |-> None,
          log |-> [l EXCEPT !.stored = IF l.stored = {}
                                       THEN {[status |-> l.status, notes |-> l.notes]}
                                       ELSE {[status |-> l.status, notes |-> ""]}]]
    ELSE [raised |-> "ValidationError", log |-> l]

\* Document.save() of a MedicationLog / PrescriptionUpload: the choices are
\* validated, then the document is inserted, or overwritten if it is stored
\* already
ChoiceSave(l) ==
    IF l.status \in Choices(l.kind)
    THEN [raised |-> None,
          log |-> [l EXCEPT !.stored = {[status |-> l.status, notes |-> l.notes]}]]
    ELSE [raised |-> "ValidationError", log |-> l]

LogSave(i) ==
    /\ logs[i].kind # None
    /\ LET r == ChoiceSave(logs[i])
       IN /\ logs' = [logs EXCEPT ![i] = r.log]
          /\ lastLog' = [op |-> "save", id |-> i, raised |-> r.raised, given |-> None,
                         before |-> logs[i].stored]
    /\ UNCHANGED <<userVars, seedVars, docVars, connVars, stats, dictVars>>

(***************************************************************************)
(* Connection: init_mongodb (lines 16-38), test_mongodb_connection (lines  *)
(* 40-64).  conn.registered is the client registered under the default     *)
(* alias (0: none), conn.open the clients not yet closed.  connect() builds *)
(* the client from the address without contacting the server: server       *)
(* selection happens on the first operation.                               *)
(***************************************************************************)
MaxClients == 3

\* at import no connection is registered
ConnInit ==
    /\ conn = [registered |-> 0, open |-> {}, next |-> 1]
    /\ init = [pc |-> "idle", uriOk |-> TRUE, result |-> None, prior |-> 0,
               serverUp |-> TRUE]
    /\ probe = None

\* the server goes away or comes back
ServerToggle ==
    /\ server' = ~server
    /\ UNCHANGED <<conn, init, probe, userVars, seedVars, docVars, logVars, stats,
                   dictVars>>

\* mongoengine.disconnect(): the client of the default alias, if any, is
\* closed and forgotten
disconnect(c) == [c EXCEPT !.registered = 0, !.open = @ \ {c.registered}]

\* mongoengine.connect(...): a malformed address raises; otherwise a new
\* client is registered, whether or not the server answers
connect(c, uriOk) ==
    IF uriOk
    THEN [raised |-> None,
          conn |-> [registered |-> c.next, open |-> c.open \cup {c.next},
                    next |-> c.next + 1]]
    ELSE [raised |-> "ConnectionFailure", conn |-> c]

\* a caller enters init_mongodb; uriOk says whether MONGODB_URI is well formed
InitCall(uriOk) ==
    /\ init.pc \in {"idle", "done"}
    /\ conn.next <= MaxClients
    /\ init' = [pc |-> "disconnect", uriOk |-> uriOk, result |-> None,
                prior |-> conn.registered, serverUp |-> TRUE]
    /\ UNCHANGED <<conn, server, probe, userVars, seedVars, docVars, logVars, stats,
                   dictVars>>

\* line 20
InitDisconnect ==
    /\ init.pc = "disconnect"
    /\ conn' = disconnect(conn)
    /\ init' = [init EXCEPT !.pc = "connect"]
    /\ UNCHANGED <<server, probe, userVars, seedVars, docVars, logVars, stats, dictVars>>

\* lines 23-34, and lines 36-38 when connect() raises
InitConnect ==
    /\ init.pc = "connect"
    /\ LET r == connect(conn, init.uriOk)
       IN /\ conn' = r.conn
          /\ init' = [init EXCEPT !.pc = "done", !.serverUp = server,
                          !.result = IF r.raised = None THEN "True" ELSE "False"]
    /\ UNCHANGED <<server, probe, userVars, seedVars, docVars, logVars, stats, dictVars>>

\* test_mongodb_connection: a client of its own, ping, two listings, close;
\* any exception gives False
TestConnection ==
    /\ probe' = IF server THEN "True" ELSE "False"
    /\ UNCHANGED <<conn, server, init, userVars, seedVars, docVars, logVars, stats,
                   dictVars>>

(***************************************************************************)
(* get_database_stats (lines 366-379): five count queries, one after the   *)
(* other, inside one try block.                                            *)
(***************************************************************************)
StatsKeys == <<"users", "medications", "reminders", "medication_logs",
               "prescription_uploads">>

StatsIdle == [pc |-> "idle", counts |-> << >>, failed |-> FALSE,
              result |-> "NotReturned", value |-> << >>]

StatsInit == stats = StatsIdle

\* a query needs a registered client and a server that answers
Available == conn.registered # 0 /\ server

\* <Document>.objects.count()
Count(key) ==
    CASE key = "users" -> Cardinality(users)
      [] key = "medications" ->
            Cardinality({i \in DocIds : docs[i].kind = "Medication" /\ docs[i].stored # NotStored})
      [] key = "reminders" ->
            Cardinality({i \in DocIds : docs[i].kind = "Reminder" /\ docs[i].stored # NotStored})
      [] key = "medication_logs" ->
            Cardinality({i \in LogIds : logs[i].kind = "MedicationLog" /\ logs[i].stored # {}})
      [] key = "prescription_uploads" ->
            Cardinality({i \in LogIds : logs[i].kind = "PrescriptionUpload" /\ logs[i].stored # {}})

\* as StatsExcept, had the except clause returned the counts made so far
StatsExceptPartial(st) == [st EXCEPT !.pc = "done", !.result = "Mapping", !.value = st.counts]

\* lines 377-379: except Exception: print, return None
StatsExcept(st) == [st EXCEPT !.pc = "done", !.result = "None", !.value = << >>]

StatsCall ==
    /\ stats.pc \in {"idle", "done"}
    /\ stats' = [StatsIdle EXCEPT !.pc = "count"]
    /\ UNCHANGED <<userVars, seedVars, docVars, logVars, connVars, dictVars>>

\* lines 370-374: the next entry of the dict literal; line 376 after the last
StatsCount ==
    /\ stats.pc = "count"
    /\ LET k == Len(stats.counts) + 1
           got == Append(stats.counts, <<StatsKeys[k], Count(StatsKeys[k])>>)
       IN stats' = IF ~Available THEN StatsExcept([stats EXCEPT !.failed = TRUE])
                   ELSE IF k < Len(StatsKeys) THEN [stats EXCEPT !.counts = got]
                   ELSE [stats EXCEPT !.pc = "done", !.counts = got,
                                      !.result = "Mapping", !.value = got]
    /\ UNCHANGED <<userVars, seedVars, docVars, logVars, connVars, dictVars>>

(***************************************************************************)
(* to_dict of the five documents (lines 105-118, 158-175, 208-221,         *)
(* 248-260, 298-316): the timestamp entries.  A datetime is the tuple      *)
(* <<year, month, day, hour, minute, second, microsecond>>, an unset field *)
(* (None) the empty tuple.  An output value is <<"null">> or               *)
(* <<"str", characters>>.                                                  *)
(***************************************************************************)
Unset == << >>

DateTimes == { <<2024, 1, 5, 0, 0, 0, 0>>, <<1999, 12, 31, 23, 59, 59, 999999>> }

DigitChars == <<"0", "1", "2", "3", "4", "5", "6", "7", "8", "9">>

\* the decimal digits of n, zero padded to width w
RECURSIVE Pad(_, _)
Pad(n, w) == IF w = 0 THEN << >> ELSE Pad(n \div 10, w - 1) \o <<DigitChars[(n % 10) + 1]>>

\* as isoformat, had str(dt) been used: a space in place of the T
StrOfDatetime(dt) ==
    Pad(dt[1], 4) \o <<"-">> \o Pad(dt[2], 2) \o <<"-">> \o Pad(dt[3], 2) \o <<" ">>
    \o Pad(dt[4], 2) \o <<":">> \o Pad(dt[5], 2) \o <<":">> \o Pad(dt[6], 2)
    \o (IF dt[7] = 0 THEN << >> ELSE <<".">> \o Pad(dt[7], 6))

\* datetime.isoformat(): YYYY-MM-DDTHH:MM:SS, and .ffffff when the
\* microsecond is not 0
isoformat(dt) ==
    Pad(dt[1], 4) \o <<"-">> \o Pad(dt[2], 2) \o <<"-">> \o Pad(dt[3], 2) \o <<"T">>
    \o Pad(dt[4], 2) \o <<":">> \o Pad(dt[5], 2) \o <<":">> \o Pad(dt[6], 2)
    \o (IF dt[7] = 0 THEN << >> ELSE <<".">> \o Pad(dt[7], 6))

\* x.isoformat() if x else None
IsoOrNone(x) == IF x # Unset THEN <<"str", isoformat(x)>> ELSE <<"null">>

\* User.to_dict (lines 105-118)
UserToDict(r) ==
    [date_of_birth |-> IsoOrNone(r.date_of_birth),
     created_at |-> IsoOrNone(r.created_at),
     last_login |-> IsoOrNone(r.last_login)]

\* Medication.to_dict (lines 158-175)
MedicationToDict(r) ==
    [start_date |-> IsoOrNone(r.start_date),
     end_date |-> IsoOrNone(r.end_date),
     created_at |-> IsoOrNone(r.created_at),
     updated_at |-> IsoOrNone(r.updated_at)]

\* Reminder.to_dict (lines 208-221)
ReminderToDict(r) ==
    [last_sent |-> IsoOrNone(r.last_sent),
     next_due |-> IsoOrNone(r.next_due),
     created_at |-> IsoOrNone(r.created_at),
     updated_at |-> IsoOrNone(r.updated_at)]

\* MedicationLog.to_dict (lines 248-260)
MedicationLogToDict(r) ==
    [taken_at |-> IsoOrNone(r.taken_at),
     created_at |-> IsoOrNone(r.created_at)]

\* PrescriptionUpload.to_dict (lines 298-316)
PrescriptionUploadToDict(r) ==
    [uploaded_at |-> IsoOrNone(r.uploaded_at),
     processed_at |-> IsoOrNone(r.processed_at)]

to_dict(rec) ==
    CASE rec.type = "User" -> UserToDict(rec.ts)
      [] rec.type = "Medication" -> MedicationToDict(rec.ts)
      [] rec.type = "Reminder" -> ReminderToDict(rec.ts)
      [] rec.type = "MedicationLog" -> MedicationLogToDict(rec.ts)
      [] rec.type = "PrescriptionUpload" -> PrescriptionUploadToDict(rec.ts)

Types == {"User", "Medication", "Reminder", "MedicationLog", "PrescriptionUpload"}

\* the DateTimeField declarations of each document
TimestampFields(type) ==
    CASE type = "User" -> {"date_of_birth", "created_at", "last_login"}
      [] type = "Medication" -> {"start_date", "end_date", "created_at", "updated_at"}
      [] type = "Reminder" -> {"last_sent", "next_due", "created_at", "updated_at"}
      [] type = "MedicationLog" -> {"taken_at", "created_at"}
      [] type = "PrescriptionUpload" -> {"uploaded_at", "processed_at"}

\* the DateTimeFields declared with default=datetime.utcnow
DefaultNow == {"created_at", "updated_at", "start_date", "taken_at", "uploaded_at"}

\* the values a field can hold: a defaulted field is never None
FieldValues(f) == IF f \in DefaultNow THEN DateTimes ELSE DateTimes \cup {Unset}

\* the records of one type
Records(t) ==
    {[type |-> t, ts |-> g] :
        g \in {h \in [TimestampFields(t) -> DateTimes \cup {Unset}] :
                  \A f \in TimestampFields(t) : h[f] \in FieldValues(f)}}

NoOutput == [calls |-> 0, prev |-> << >>, cur |-> << >>]

DictInit ==
    /\ recs \in UNION {Records(t) : t \in Types}
    /\ out = NoOutput

\* the caller builds a record of some type
RecNew(t, ts) ==
    /\ [type |-> t, ts |-> ts] \in Records(t)
    /\ recs' = [type |-> t, ts |-> ts]
    /\ out' = NoOutput
    /\ UNCHANGED <<userVars, seedVars, docVars, logVars, connVars, stats>>

\* the caller assigns a timestamp field; None on a defaulted field gives
\* the default, the current time
RecAssign(f, v, dflt) ==
    /\ f \in TimestampFields(recs.type)
    /\ recs' = [recs EXCEPT !.ts[f] = IF v = Unset /\ f \in DefaultNow THEN dflt ELSE v]
    /\ out' = NoOutput
    /\ UNCHANGED <<userVars, seedVars, docVars, logVars, connVars, stats>>

\* the caller serializes the record
RecToDict ==
    /\ out' = [calls |-> IF out.calls < 2 THEN out.calls + 1 ELSE 2,
               prev |-> out.cur, cur |-> to_dict(recs)]
    /\ UNCHANGED <<recs, userVars, seedVars, docVars, logVars, connVars, stats>>

(***************************************************************************)
(* Specifications.                                                         *)
(***************************************************************************)
DictIdle ==
    /\ recs = [type |-> "MedicationLog",
               ts |-> [f \in TimestampFields("MedicationLog") |-> <<2024, 1, 5, 0, 0, 0, 0>>]]
    /\ out = NoOutput

Init ==
    /\ UserInit /\ SeedInit /\ DocInit /\ LogInit /\ ConnInit /\ server = TRUE
    /\ StatsInit /\ DictIdle

SeedStep(p) ==
    \/ SeedStart(p)
    \/ SeedCheck(p)
    \/ SeedSave(p)
    \/ SeedReturn(p)
    \/ SeedFinish(p)

\* Users: callers that insert and re-save User documents
Next ==
    \/ \E u \in Usernames \cup {None}, e \in Emails \cup {None} : UserInsert(u, e)
    \/ \E s \in users, u \in Usernames, e \in Emails : UserResave(s, u, e)

Spec == Init /\ [][Next]_vars

\* Errors: callers that insert User documents, next to one caller of
\* create_default_users
NextErr ==
    \/ \E u \in Usernames \cup {None}, e \in Emails \cup {None} : UserInsert(u, e)
    \/ SeedStep(1)

SpecErr == Init /\ [][NextErr]_vars

\* create_default_users called twice in a row on any stored content, no
\* other writer
InitSeed ==
    /\ users \in StoredUsers
    /\ nextId = Cardinality(users) + 1
    /\ lastUser = [op |-> None, raised |-> None, doc |-> None, before |-> {}]
    /\ SeedInit /\ DocInit /\ LogInit /\ ConnInit /\ server = TRUE
    /\ StatsInit /\ DictIdle

NextSeed == SeedStep(1)

SpecSeed == InitSeed /\ [][NextSeed]_vars

\* two callers of create_default_users on an empty collection
NextRace == \E p \in Procs : SeedStep(p)

SpecRace == Init /\ [][NextRace]_vars

\* Medication and Reminder objects: built, edited and saved as time passes
NextStamp ==
    \/ Tick
    \/ \E i \in DocIds, k \in {"Medication", "Reminder"}, v \in BOOLEAN,
          t \in Times \cup {NotStored} : DocNew(i, k, v, t)
    \/ \E i \in DocIds, t \in Times : DocAssign(i, t)
    \/ \E i \in DocIds : DocEdit(i)
    \/ \E i \in DocIds : DocSave(i)

SpecStamp == Init /\ [][NextStamp]_vars

\* MedicationLog and PrescriptionUpload objects: built, edited and saved
NextLog ==
    \/ \E i \in LogIds, k \in {"MedicationLog", "PrescriptionUpload"},
          st \in StatusInputs : LogNew(i, k, st)
    \/ \E i \in LogIds, st \in StatusInputs : LogAssign(i, st)
    \/ \E i \in LogIds, n \in Notes : LogNote(i, n)
    \/ \E i \in LogIds : LogSave(i)

SpecLog == Init /\ [][NextLog]_vars

\* the connection: init_mongodb and test_mongodb_connection while the
\* server comes and goes
InitConn ==
    /\ UserInit /\ SeedInit /\ DocInit /\ LogInit /\ ConnInit /\ server \in BOOLEAN
    /\ StatsInit /\ DictIdle

NextConn ==
    \/ \E ok \in BOOLEAN : InitCall(ok)
    \/ InitDisconnect
    \/ InitConnect
    \/ ServerToggle
    \/ TestConnection

SpecConn == InitConn /\ [][NextConn]_vars

\* get_database_stats while the connection is set up, the server comes and
\* goes and users are inserted
NextStats ==
    \/ \E ok \in BOOLEAN : InitCall(ok)
    \/ InitDisconnect
    \/ InitConnect
    \/ ServerToggle
    \/ \E k \in 1..Len(default_users) :
          UserInsert(default_users[k].username, default_users[k].email)
    \/ StatsCall
    \/ StatsCount

SpecStats == InitConn /\ [][NextStats]_vars

\* to_dict on records of the five types
InitDict ==
    /\ UserInit /\ SeedInit /\ DocInit /\ LogInit /\ ConnInit /\ server = TRUE
    /\ StatsInit /\ DictInit

NextDict ==
    \/ \E t \in Types : \E ts \in [TimestampFields(t) -> DateTimes \cup {Unset}] :
          RecNew(t, ts)
    \/ \E f \in TimestampFields(recs.type), v \in DateTimes \cup {Unset}, d \in DateTimes :
          RecAssign(f, v, d)
    \/ RecToDict

SpecDict == InitDict /\ [][NextDict]_vars

(***************************************************************************)
(* Properties of the users collection and of create_default_users.         *)
(***************************************************************************)

\* the save that came last met a stored document of another id with its
\* username or its email
MetDuplicate ==
    /\ lastUser.op # None
    /\ \E s \in lastUser.before :
          /\ s.id # lastUser.doc.id
          /\ (s.username = lastUser.doc.username \/ s.email = lastUser.doc.email)

\* C1: no two stored users share a username or an email, and a save that
\* meets a stored user with its username or email raises and leaves the
\* collection as it was
UsersUnique ==
    /\ \A a, b \in users : a # b =>
          a.id # b.id /\ a.username # b.username /\ a.email # b.email
    /\ MetDuplicate =>
          lastUser.raised \in {"NotUniqueError", "ValidationError"} /\ users = lastUser.before

\* an insert was refused for its email alone
UsersUniqueWitness ==
    /\ lastUser.op = "insert"
    /\ lastUser.raised = "NotUniqueError"
    /\ \A s \in lastUser.before : s.username # lastUser.doc.username
    /\ users = lastUser.before /\ users # {}

\* the seeds whose username is not stored in a collection
SeedN(store) ==
    Cardinality({k \in 1..Len(default_users) :
                    \A s \in store : s.username # default_users[k].username})

\* a seed that is to be created has its email stored under another username
SeedEmailTaken(store) ==
    \E k \in 1..Len(default_users) :
        /\ \A s \in store : s.username # default_users[k].username
        /\ \E s \in store : s.email = default_users[k].email

\* C2 as stated: of two calls in a row, the first creates as many users as
\* there are seeds with a username not stored before, the second none
SeedTwiceExact ==
    Len(hist[1]) >= 2 =>
        /\ hist[1][1].created = SeedN(hist[1][1].before)
        /\ hist[1][2].created = 0

\* C2 amended: that holds, both calls returning True, when no seed to be
\* created has its email stored under another username; when one has, the
\* first call returns False with fewer users created, and the second call
\* creates none
SeedTwiceUnlessEmailTaken ==
    Len(hist[1]) >= 2 =>
        IF ~SeedEmailTaken(hist[1][1].before)
        THEN /\ hist[1][1].created = SeedN(hist[1][1].before)
             /\ hist[1][2].created = 0
             /\ hist[1][1].result = "True" /\ hist[1][2].result = "True"
        ELSE /\ hist[1][1].created < SeedN(hist[1][1].before)
             /\ hist[1][2].created = 0
             /\ hist[1][1].result = "False"

\* two calls are over, the first created one user next to a stored one
SeedTwiceWitness ==
    /\ Len(hist[1]) >= 2
    /\ hist[1][1].before # {}
    /\ hist[1][1].created = 1
    /\ hist[1][1].result = "True"
    /\ hist[1][2].created = 0

\* C6 as stated: an error of save() that create_default_users meets reaches
\* its caller
SeedErrorPropagates ==
    \A p \in Procs : seed[p].caught # None => seed[p].result = "Raised"

\* C6 amended: a failed save() of a caller raises to that caller and stores
\* nothing; create_default_users catches the error of its own save() and
\* returns False
ErrorRaisedOrFalse ==
    /\ lastUser.op = "insert" /\ (~UserValidate(lastUser.doc) \/ MetDuplicate) =>
          lastUser.raised # None /\ users = lastUser.before
    /\ \A p \in Procs : seed[p].caught # None =>
          seed[p].pc = "done" /\ seed[p].result = "False"

\* create_default_users has caught a uniqueness error of its save()
ErrorRaisedOrFalseWitness ==
    /\ seed[1].pc = "done"
    /\ seed[1].caught = "NotUniqueError"
    /\ lastUser.op = "seed" /\ lastUser.raised = "NotUniqueError"

\* C10 as stated: after two concurrent calls on an empty collection every
\* seed username is stored once and both calls have returned True
RaceBothTrue ==
    Len(hist[1]) >= 1 /\ Len(hist[2]) >= 1 =>
        /\ \A k \in 1..Len(default_users) :
              Cardinality({s \in users : s.username = default_users[k].username}) = 1
        /\ hist[1][1].result = "True"
        /\ hist[2][1].result = "True"

(***************************************************************************)
(* Properties of Medication.save and Reminder.save.                        *)
(***************************************************************************)

\* C3 as stated: after a save, updated_at is not below its value before
StampNeverDecreases ==
    lastDoc.op = "save" => docs[lastDoc.id].updated_at >= lastDoc.before

\* C3 amended: a save sets updated_at to the current time, whether or not
\* the caller changed a field and whether or not the write succeeds; that is
\* not below the value before whenever that value came from the default or
\* from an earlier save, and a successful save stores it.  A value the
\* caller assigned may lie ahead of the clock, and save lowers it.
StampIsNow ==
    /\ lastDoc.op = "save" =>
          /\ docs[lastDoc.id].updated_at = now
          /\ ~lastDoc.given => docs[lastDoc.id].updated_at >= lastDoc.before
          /\ lastDoc.raised = None => docs[lastDoc.id].stored = now
    /\ \A i \in DocIds : docs[i].kind # None /\ ~docs[i].given => docs[i].updated_at <= now

\* a Reminder saved at a later time than its last save or construction
StampIsNowWitness ==
    /\ lastDoc.op = "save"
    /\ ~lastDoc.given
    /\ docs[lastDoc.id].kind = "Reminder"
    /\ docs[lastDoc.id].updated_at > lastDoc.before

(***************************************************************************)
(* Properties of MedicationLog and PrescriptionUpload.                     *)
(***************************************************************************)

\* C7: every stored status lies in the choices of its document; a save with
\* a status outside them raises ValidationError and stores nothing; a
\* document built without a status has the default, 'taken' or 'pending'
ChoicesHold ==
    /\ \A i \in LogIds : \A st \in logs[i].stored : st.status \in Choices(logs[i].kind)
    /\ lastLog.op = "save" /\ logs[lastLog.id].status \notin Choices(logs[lastLog.id].kind) =>
          lastLog.raised = "ValidationError" /\ logs[lastLog.id].stored = lastLog.before
    /\ lastLog.op = "new" /\ lastLog.given = None =>
          logs[lastLog.id].status =
             (IF logs[lastLog.id].kind = "MedicationLog" THEN "taken" ELSE "pending")

\* a PrescriptionUpload with a status of the other enumeration was refused
ChoicesHoldWitness ==
    /\ lastLog.op = "save"
    /\ lastLog.raised = "ValidationError"
    /\ logs[lastLog.id].kind = "PrescriptionUpload"
    /\ logs[lastLog.id].status = "taken"
    /\ logs[lastLog.id].stored = {}

\* C8 as stated: a stored MedicationLog never changes
LogImmutable ==
    [][\A i \in LogIds :
          logs[i].kind = "MedicationLog" /\ logs[i].stored # {} =>
             logs'[i].stored = logs[i].stored]_vars

\* C8 amended: a stored MedicationLog changes only by a save() of that same
\* object, which overwrites the stored fields with the ones in memory;
\* assigning fields without saving changes nothing stored
LogChangedBySaveOnly ==
    [][\A i \in LogIds :
          logs[i].kind = "MedicationLog" /\ logs[i].stored # {}
             /\ logs'[i].stored # logs[i].stored =>
                /\ lastLog'.op = "save" /\ lastLog'.id = i /\ lastLog'.raised = None
                /\ logs'[i].stored = {[status |-> logs[i].status, notes |-> logs[i].notes]}]_vars

\* a stored MedicationLog was saved again with other fields
LogChangedBySaveOnlyWitness ==
    /\ lastLog.op = "save"
    /\ logs[lastLog.id].kind = "MedicationLog"
    /\ lastLog.before # {}
    /\ logs[lastLog.id].stored # lastLog.before

(***************************************************************************)
(* Properties of init_mongodb and get_database_stats.                      *)
(***************************************************************************)

\* C4 as stated: a finished init_mongodb has closed the connection it found,
\* has returned True with a connection registered, and has returned False
\* when the address was malformed or the server did not answer
InitReportsFailure ==
    init.pc = "done" =>
        /\ init.prior \notin conn.open
        /\ init.result = "True" => conn.registered # 0
        /\ ~init.uriOk \/ ~init.serverUp => init.result = "False"

\* C5: a finished get_database_stats has returned None, and no counts, if a
\* count query failed, and else a mapping with a count for each of the five
\* collections
StatsAllOrNone ==
    stats.pc = "done" =>
        IF stats.failed
        THEN stats.result = "None" /\ stats.value = << >>
        ELSE /\ stats.result = "Mapping"
             /\ Len(stats.value) = 5
             /\ {stats.value[k][1] : k \in 1..Len(stats.value)} =
                   {"users", "medications", "reminders", "medication_logs",
                    "prescription_uploads"}
             /\ \A k \in 1..Len(stats.value) : stats.value[k][2] \in Nat

\* the connection went away after some of the counts were made
StatsAllOrNoneWitness ==
    /\ stats.pc = "done"
    /\ stats.failed
    /\ Len(stats.counts) >= 2
    /\ stats.result = "None"

(***************************************************************************)
(* Properties of to_dict.                                                  *)
(***************************************************************************)
IsDigit(c) == c \in {"0", "1", "2", "3", "4", "5", "6", "7", "8", "9"}

\* YYYY-MM-DDTHH:MM:SS or YYYY-MM-DDTHH:MM:SS.ffffff
IsIso8601(str) ==
    /\ Len(str) \in {19, 26}
    /\ \A k \in 1..Len(str) :
          CASE k \in {5, 8} -> str[k] = "-"
            [] k = 11 -> str[k] = "T"
            [] k \in {14, 17} -> str[k] = ":"
            [] k = 20 -> str[k] = "."
            [] OTHER -> IsDigit(str[k])

\* C9: the output of to_dict has a key for every timestamp field of the
\* record, null where the field is unset and an ISO-8601 string where it is
\* set, and a second call on the unchanged record gives the same output
ToDictTimestamps ==
    out.calls >= 1 =>
        /\ DOMAIN out.cur = TimestampFields(recs.type)
        /\ \A f \in TimestampFields(recs.type) :
              IF recs.ts[f] = Unset THEN out.cur[f] = <<"null">>
              ELSE out.cur[f][1] = "str" /\ IsIso8601(out.cur[f][2])
        /\ out.calls >= 2 => out.prev = out.cur

\* a Reminder serialized twice, one timestamp unset, one with microseconds
ToDictTimestampsWitness ==
    /\ out.calls = 2
    /\ recs.type = "Reminder"
    /\ recs.ts["last_sent"] = Unset
    /\ recs.ts["next_due"] # Unset /\ recs.ts["next_due"][7] # 0

====
